---- MODULE Spec2Model ----
(***************************************************************************)
(* Model of src-tauri/src/lib.rs of aura-app: the supervisor of the Python *)
(* sidecar (start_sidecar and its event loop), the command path to the     *)
(* sidecar's stdin (send_to_sidecar, write_to_sidecar), the event routing  *)
(* of the sidecar's stdout lines and the pending-break handoff store.      *)
(*                                                                         *)
(* Each shared field is guarded by its own std::sync::Mutex.  A critical   *)
(* section that only reads or assigns the field is one atomic step; the    *)
(* child lock is held across the write to the sidecar's stdin, so it is    *)
(* modelled explicitly (childLock).                                        *)
(***************************************************************************)
EXTENDS Integers, Sequences, FiniteSets, TLC

\* ------------------------------------------------------------- bounds
\* How many times a sidecar process may exit during a run.
MaxCrashes == 2
\* How many stdout lines that decode the event loops receive.
MaxRecv == 2
\* How many of them in the runs that also exercise the handoff commands, the
\* delayed pushes and the windows.
MaxRouted == 1
\* How many stderr lines and process errors the event loops receive.
MaxErr == 1
\* How many stdout lines that do not decode the event loops receive.
MaxBad == 1
\* How many commands are submitted (send_to_sidecar and tray writes).
MaxCmds == 3
\* How many break commands the frontend sends in the runs that also exercise
\* the router and the restarts.
MaxAnswers == 1
\* How many times trigger_test_break is invoked.
MaxTests == 1
\* How many pause and resume items of the tray menu are clicked.
MaxTray == 1

\* Workers are numbered in spawn order; each exit allows one restart.
Workers == 1..(MaxCrashes + 1)

\* Option<T>: None is the empty sequence, Some(v) is <<v>>.
None == <<>>
Some(v) == <<v>>

\* ------------------------------------------------------------- JSON values
\* A value is a record with one field, named after its kind.
JNull == [null |-> TRUE]
JStr(s) == [str |-> s]
JNum(n) == [num |-> n]
JObj(f) == [obj |-> f]
JArr(s) == [arr |-> s]
\* A stdout line that is not JSON at all.
Noise(s) == [noise |-> s]
IsNull(j) == DOMAIN j = {"null"}
IsStr(j) == DOMAIN j = {"str"}
IsObj(j) == DOMAIN j = {"obj"}
IsArr(j) == DOMAIN j = {"arr"}

VARIABLES
  is_running,    \* SidecarState.is_running
  child,         \* SidecarState.child: None or Some(worker)
  childLock,     \* holder of the child mutex: "free" or a process name
  break_data,    \* PendingBreakState.break_data: None or Some(payload)
  proc,          \* proc[w]: the OS process of worker w: "unborn", "alive", "exited"
  pc,            \* pc[w]: where the start_sidecar call that spawned w, and then
                 \* its event loop, stand
  cur,           \* cur[w]: the decoded event the loop of w is dispatching
  pendingStarts, \* start_sidecar calls not yet begun (setup, sleeping restart tasks)
  restarts,      \* restarts[w]: restart tasks spawned on w's Terminated event
  nFailed,       \* launches that failed ("Failed to create/spawn sidecar" logged)
  events,        \* history: the events decoded by the event loops, in order
  nParseErr,     \* "Failed to parse JSON" lines logged
  emitted,       \* app.emit broadcasts, in order
  exists,        \* the webview windows that exist
  visible,       \* the windows that are shown
  focused,       \* the window that was focused last, or "none"
  placed,        \* the windows that were positioned bottom-right
  onTop,         \* the windows set always-on-top
  pushTasks,     \* delayed push tasks that sleep
  pushed,        \* window.emit pushes delivered, in order
  fx,            \* history: fx[src] is the effects applied for the event or test
                 \* break src, in the order of the statements that applied them
  nLogged,       \* stderr lines and process errors logged by the event loops
  cpc,           \* cpc[c]: where submitter c stands
  ccmd,          \* ccmd[c]: the command submitter c is writing
  cres,          \* cres[c]: the result of c's last send_to_sidecar
  stdin,         \* stdin[w]: the chunks written to worker w's stdin
  written,       \* commands whose write completed
  nCmds,         \* commands submitted so far
  tray,          \* the tray menu event being handled: None, or Some of its item,
                 \* its command, what child.write returned and the step reached
  hostExited,    \* app.exit(0) was called: the host process is gone
  qres,          \* the result of the last is_sidecar_running: None or Some(flag)
  tpc,           \* where the trigger_test_break call stands
  got,           \* the result of the last get_pending_break
  lastStaged,    \* history: the payload of the last staging since the last clear
  nTests         \* trigger_test_break calls so far

supVars == <<is_running, child, childLock, proc, pc, cur, pendingStarts, restarts, nFailed>>
routeVars == <<events, nParseErr, emitted, exists, visible, focused, placed, onTop,
               pushTasks, pushed, fx, nLogged>>
cmdVars == <<cpc, ccmd, cres, stdin, written, nCmds, tray, hostExited, qres>>
handoffVars == <<break_data, tpc, got, lastStaged, nTests>>
vars == <<supVars, routeVars, cmdVars, handoffVars>>

\* ------------------------------------------------------------- supervisor
Spawned == {w \in Workers : proc[w] # "unborn"}
Exited == {w \in Workers : proc[w] = "exited"}

\* run(), lines 700-724: start_sidecar is first called from the setup hook, on
\* the main thread, before the application's event loop runs; tray menu
\* events and the frontend's commands are served only after setup returned.
SetupDone == nFailed > 0 \/ pc[1] \notin {"none", "spawned", "stored"}

\* start_sidecar, lines 439-460: create the command and spawn the process.
\* Either step may fail; the call then logs and returns.
LaunchOutcomes == {"ok", "create_failed", "spawn_failed"}

\* Mutant: the call is not used up, as if the restart task looped on it.
StartSidecarRetry(outcome) ==
  /\ pendingStarts > 0
  /\ UNCHANGED pendingStarts
  /\ IF outcome = "ok"
       THEN /\ Cardinality(Spawned) < Cardinality(Workers)
            /\ LET w == Cardinality(Spawned) + 1 IN
                 /\ proc' = [proc EXCEPT ![w] = "alive"]
                 /\ pc' = [pc EXCEPT ![w] = "spawned"]
            /\ UNCHANGED nFailed
       ELSE /\ nFailed' = nFailed + 1
            /\ UNCHANGED <<proc, pc>>
  /\ UNCHANGED <<is_running, child, childLock, cur, restarts>>
  /\ UNCHANGED <<routeVars, cmdVars, handoffVars>>

\* Mutant: the flag is raised before the launch is attempted.
StartSidecarFlagFirst(outcome) ==
  /\ pendingStarts > 0
  /\ pendingStarts' = pendingStarts - 1
  /\ is_running' = TRUE
  /\ IF outcome = "ok"
       THEN /\ Cardinality(Spawned) < Cardinality(Workers)
            /\ LET w == Cardinality(Spawned) + 1 IN
                 /\ proc' = [proc EXCEPT ![w] = "alive"]
                 /\ pc' = [pc EXCEPT ![w] = "spawned"]
            /\ UNCHANGED nFailed
       ELSE /\ nFailed' = nFailed + 1
            /\ UNCHANGED <<proc, pc>>
  /\ UNCHANGED <<child, childLock, cur, restarts>>
  /\ UNCHANGED <<routeVars, cmdVars, handoffVars>>

\* The first part of one start_sidecar call: on success a new process runs
\* and the call goes on to store its handle.
StartSidecar(outcome) ==
  /\ pendingStarts > 0
  /\ pendingStarts' = pendingStarts - 1
  /\ IF outcome = "ok"
       THEN /\ Cardinality(Spawned) < Cardinality(Workers)
            /\ LET w == Cardinality(Spawned) + 1 IN
                 /\ proc' = [proc EXCEPT ![w] = "alive"]
                 /\ pc' = [pc EXCEPT ![w] = "spawned"]
            /\ UNCHANGED nFailed
       ELSE /\ nFailed' = nFailed + 1
            /\ UNCHANGED <<proc, pc>>
  /\ UNCHANGED <<is_running, child, childLock, cur, restarts>>
  /\ UNCHANGED <<routeVars, cmdVars, handoffVars>>

\* start_sidecar, lines 462-466: store the child under the child lock.
StartStoreChild(w) ==
  /\ pc[w] = "spawned"
  /\ childLock = "free"
  /\ child' = Some(w)
  /\ pc' = [pc EXCEPT ![w] = "stored"]
  /\ UNCHANGED <<is_running, childLock, proc, cur, pendingStarts, restarts, nFailed>>
  /\ UNCHANGED <<routeVars, cmdVars, handoffVars>>

\* start_sidecar, lines 468-473: raise the flag and spawn the event loop.
StartSetRunning(w) ==
  /\ pc[w] = "stored"
  /\ is_running' = TRUE
  /\ pc' = [pc EXCEPT ![w] = "recv"]
  /\ UNCHANGED <<child, childLock, proc, cur, pendingStarts, restarts, nFailed>>
  /\ UNCHANGED <<routeVars, cmdVars, handoffVars>>

\* The sidecar process exits on its own (a crash, or a shutdown it obeyed).
\* Its Terminated event is then the last one its loop receives.
WorkerExit(w) ==
  /\ proc[w] = "alive"
  /\ Cardinality(Exited) < MaxCrashes
  /\ proc' = [proc EXCEPT ![w] = "exited"]
  /\ UNCHANGED <<is_running, child, childLock, pc, cur, pendingStarts, restarts, nFailed>>
  /\ UNCHANGED <<routeVars, cmdVars, handoffVars>>

\* The payload of CommandEvent::Terminated: an exit code, or none when a
\* signal killed the process.  The arm only prints it, line 570.
ExitStatuses == {"code_0", "code_1", "signal"}

\* Mutant: the Terminated arm begins with the handle: it clears it and
\* leaves the flag up.
LoopTerminatedClearsFirst(w, status) ==
  /\ pc[w] = "recv"
  /\ proc[w] = "exited"
  /\ childLock = "free"
  /\ child' = None
  /\ pc' = [pc EXCEPT ![w] = "term"]
  /\ UNCHANGED <<is_running, childLock, proc, cur, pendingStarts, restarts, nFailed>>
  /\ UNCHANGED <<routeVars, cmdVars, handoffVars>>

\* CommandEvent::Terminated, lines 569-572: lower the flag.
LoopTerminated(w, status) ==
  /\ pc[w] = "recv"
  /\ proc[w] = "exited"
  /\ is_running' = FALSE
  /\ pc' = [pc EXCEPT ![w] = "term"]
  /\ UNCHANGED <<child, childLock, proc, cur, pendingStarts, restarts, nFailed>>
  /\ UNCHANGED <<routeVars, cmdVars, handoffVars>>

\* Mutant: the Terminated arm spawns no restart task.
LoopTermNoRestart(w) ==
  /\ pc[w] = "term"
  /\ childLock = "free"
  /\ child' = None
  /\ pc' = [pc EXCEPT ![w] = "done"]
  /\ UNCHANGED <<is_running, childLock, proc, cur, pendingStarts, restarts, nFailed>>
  /\ UNCHANGED <<routeVars, cmdVars, handoffVars>>

\* Mutant: the Terminated arm spawns the restart task twice.
LoopTermRestartTwice(w) ==
  /\ pc[w] = "term"
  /\ childLock = "free"
  /\ child' = None
  /\ restarts' = [restarts EXCEPT ![w] = @ + 2]
  /\ pendingStarts' = pendingStarts + 2
  /\ pc' = [pc EXCEPT ![w] = "done"]
  /\ UNCHANGED <<is_running, childLock, proc, cur, nFailed>>
  /\ UNCHANGED <<routeVars, cmdVars, handoffVars>>

\* Mutant: the restart policy gives up after one restart.
LoopTermRestartCapped(w) ==
  /\ pc[w] = "term"
  /\ childLock = "free"
  /\ child' = None
  /\ IF w < 2
       THEN /\ restarts' = [restarts EXCEPT ![w] = @ + 1]
            /\ pendingStarts' = pendingStarts + 1
       ELSE UNCHANGED <<restarts, pendingStarts>>
  /\ pc' = [pc EXCEPT ![w] = "done"]
  /\ UNCHANGED <<is_running, childLock, proc, cur, nFailed>>
  /\ UNCHANGED <<routeVars, cmdVars, handoffVars>>

\* Lines 574-585: clear the child under its lock, then spawn the task that
\* sleeps two seconds and calls start_sidecar.  The channel closes after
\* Terminated, so the loop ends.
LoopTermRestart(w) ==
  /\ pc[w] = "term"
  /\ childLock = "free"
  /\ child' = None
  /\ restarts' = [restarts EXCEPT ![w] = @ + 1]
  /\ pendingStarts' = pendingStarts + 1
  /\ pc' = [pc EXCEPT ![w] = "done"]
  /\ UNCHANGED <<is_running, childLock, proc, cur, nFailed>>
  /\ UNCHANGED <<routeVars, cmdVars, handoffVars>>

\* ------------------------------------------------------------- codec
\* serde_json::from_slice::<SidecarEvent>: the line must be a JSON object
\* with a string "type" (unknown fields are ignored), or a two-element array
\* holding the fields in order.  "data" is an Option: missing or null is None.
OptionOf(j) == IF IsNull(j) THEN None ELSE Some(j)

Decode(line) ==
  IF IsObj(line) /\ "type" \in DOMAIN line.obj /\ IsStr(line.obj.type)
    THEN [ok |-> TRUE,
          event_type |-> line.obj.type.str,
          data |-> IF "data" \in DOMAIN line.obj THEN OptionOf(line.obj.data) ELSE None]
  ELSE IF IsArr(line) /\ Len(line.arr) = 2 /\ IsStr(line.arr[1])
    THEN [ok |-> TRUE, event_type |-> line.arr[1].str, data |-> OptionOf(line.arr[2])]
  ELSE [ok |-> FALSE, event_type |-> "", data |-> None]

\* The stdout lines the sidecar is taken to print.
StretchData == JObj([break_type |-> JStr("stretch"), duration_seconds |-> JNum(30)])
WarnData == JObj([title |-> JStr("Lunch"), seconds_remaining |-> JNum(60)])
Lines ==
  { JObj([type |-> JStr("break_due"), data |-> StretchData]),
    JObj([type |-> JStr("break_due")]),
    JObj([type |-> JStr("schedule_warning"), data |-> WarnData]),
    JObj([type |-> JStr("status_update"), data |-> JNull]),
    JObj([data |-> StretchData]),
    Noise("Traceback (most recent call last):") }

\* The payload trigger_test_break builds, lines 132-137.
TestBreakData(break_type, duration_seconds, theme_color) ==
  JObj([break_type |-> JStr(break_type), duration_seconds |-> JNum(duration_seconds),
        theme_color |-> JStr(theme_color), record_id |-> JNum(999)])

Surfaces == {"overlay", "notification"}

\* The event types the loop routes by a rule of their own, lines 487 and 514.
Special == {"break_due", "schedule_warning"}

\* ------------------------------------------------------------- event loop
\* What staged a payload or showed a surface: the n-th decoded event, or the
\* n-th trigger_test_break call.
Sources ==
  {<<"event", n>> : n \in 1..MaxRecv} \cup {<<"test", n>> : n \in 1..MaxTests}
\* The statements run for src applied the effects effs, in this order.
Log(src, effs) == fx' = [fx EXCEPT ![src] = @ \o effs]
\* The events and test breaks whose payload has been staged.
Staged == {src \in Sources : \E i \in 1..Len(fx[src]) : fx[src][i] = "stage"}

\* Mutant: the next line is taken up while the last event is still being
\* dispatched (each line handled by a task of its own).
LoopStdoutConcurrent(w, line) ==
  /\ pc[w] \in {"recv", "stage", "show", "warn", "emit"}
  /\ LET d == Decode(line) IN
       IF d.ok
         THEN /\ Len(events) < MaxRecv
              /\ events' = Append(events, [event_type |-> d.event_type, data |-> d.data])
              /\ cur' = [cur EXCEPT ![w] = Some([id |-> Len(events) + 1,
                                                 event_type |-> d.event_type,
                                                 data |-> d.data])]
              /\ pc' = [pc EXCEPT ![w] =
                          IF d.event_type = "break_due" THEN "stage"
                          ELSE IF d.event_type = "schedule_warning" THEN "warn"
                          ELSE "emit"]
              /\ UNCHANGED nParseErr
         ELSE /\ nParseErr < MaxBad
              /\ nParseErr' = nParseErr + 1
              /\ UNCHANGED <<events, cur, pc>>
  /\ UNCHANGED <<is_running, child, childLock, proc, pendingStarts, restarts, nFailed>>
  /\ UNCHANGED <<emitted, exists, visible, focused, placed, onTop, pushTasks, pushed>>
  /\ UNCHANGED <<fx, nLogged, cmdVars, handoffVars>>

\* Mutant: a line that does not decode ends the event loop.
LoopStdoutAbort(w, line) ==
  /\ pc[w] = "recv"
  /\ LET d == Decode(line) IN
       IF d.ok
         THEN /\ Len(events) < MaxRecv
              /\ events' = Append(events, [event_type |-> d.event_type, data |-> d.data])
              /\ cur' = [cur EXCEPT ![w] = Some([id |-> Len(events) + 1,
                                                 event_type |-> d.event_type,
                                                 data |-> d.data])]
              /\ pc' = [pc EXCEPT ![w] =
                          IF d.event_type = "break_due" THEN "stage"
                          ELSE IF d.event_type = "schedule_warning" THEN "warn"
                          ELSE "emit"]
              /\ UNCHANGED nParseErr
         ELSE /\ nParseErr < MaxBad
              /\ nParseErr' = nParseErr + 1
              /\ pc' = [pc EXCEPT ![w] = "done"]
              /\ UNCHANGED <<events, cur>>
  /\ UNCHANGED <<is_running, child, childLock, proc, pendingStarts, restarts, nFailed>>
  /\ UNCHANGED <<emitted, exists, visible, focused, placed, onTop, pushTasks, pushed>>
  /\ UNCHANGED <<fx, nLogged, cmdVars, handoffVars>>

\* CommandEvent::Stdout, lines 477-482 and 557-560: decode the line; a line
\* that does not decode is logged and dropped.
LoopStdout(w, line) ==
  /\ pc[w] = "recv"
  /\ LET d == Decode(line) IN
       IF d.ok
         THEN /\ Len(events) < MaxRecv
              /\ events' = Append(events, [event_type |-> d.event_type, data |-> d.data])
              /\ cur' = [cur EXCEPT ![w] = Some([id |-> Len(events) + 1,
                                                 event_type |-> d.event_type,
                                                 data |-> d.data])]
              /\ pc' = [pc EXCEPT ![w] =
                          IF d.event_type = "break_due" THEN "stage"
                          ELSE IF d.event_type = "schedule_warning" THEN "warn"
                          ELSE "emit"]
              /\ UNCHANGED nParseErr
         ELSE /\ nParseErr < MaxBad
              /\ nParseErr' = nParseErr + 1
              /\ UNCHANGED <<events, cur, pc>>
  /\ UNCHANGED <<is_running, child, childLock, proc, pendingStarts, restarts, nFailed>>
  /\ UNCHANGED <<emitted, exists, visible, focused, placed, onTop, pushTasks, pushed>>
  /\ UNCHANGED <<fx, nLogged, cmdVars, handoffVars>>

\* Mutant: the staging is left out; the dispatch goes on to the show.
LoopStageSkipped(w) ==
  /\ pc[w] = "stage"
  /\ pc' = [pc EXCEPT ![w] = "show"]
  /\ UNCHANGED <<is_running, child, childLock, proc, cur, pendingStarts, restarts, nFailed>>
  /\ UNCHANGED <<routeVars, cmdVars, handoffVars>>

\* An event of the loop that is only logged.
LoopLogged(w) ==
  /\ pc[w] = "recv"
  /\ nLogged < MaxErr
  /\ nLogged' = nLogged + 1
  /\ UNCHANGED supVars
  /\ UNCHANGED <<events, nParseErr, emitted, exists, visible, focused, placed, onTop,
                 pushTasks, pushed, fx>>
  /\ UNCHANGED <<cmdVars, handoffVars>>

\* CommandEvent::Stderr, lines 562-565: the line is printed.
LoopStderr(w) == LoopLogged(w)

\* Mutant: a process error is taken for the end of the worker: the flag is
\* lowered and a restart scheduled.
LoopErrorRecovers(w) ==
  /\ pc[w] = "recv"
  /\ nLogged < MaxErr
  /\ nLogged' = nLogged + 1
  /\ is_running' = FALSE
  /\ pendingStarts' = pendingStarts + 1
  /\ UNCHANGED <<child, childLock, proc, pc, cur, restarts, nFailed>>
  /\ UNCHANGED <<events, nParseErr, emitted, exists, visible, focused, placed, onTop,
                 pushTasks, pushed, fx>>
  /\ UNCHANGED <<cmdVars, handoffVars>>

\* CommandEvent::Error, lines 566-568: the error is printed.
LoopError(w) == LoopLogged(w)

\* Line 475: rx.recv() returns None, the channel was closed without a
\* Terminated event having been sent; the loop and its task end.
LoopClosed(w) ==
  /\ pc[w] = "recv"
  /\ pc' = [pc EXCEPT ![w] = "closed"]
  /\ UNCHANGED <<is_running, child, childLock, proc, cur, pendingStarts, restarts, nFailed>>
  /\ UNCHANGED <<routeVars, cmdVars, handoffVars>>

\* Mutant: a payload already staged is kept (first write wins).
LoopStageKeepFirst(w) ==
  /\ pc[w] = "stage"
  /\ LET e == cur[w][1] IN
       IF e.data # None
         THEN /\ break_data' = IF break_data = None THEN e.data ELSE break_data
              /\ lastStaged' = e.data
              /\ Log(<<"event", e.id>>, <<"stage">>)
         ELSE UNCHANGED <<break_data, lastStaged, fx>>
  /\ pc' = [pc EXCEPT ![w] = "show"]
  /\ UNCHANGED <<is_running, child, childLock, proc, cur, pendingStarts, restarts, nFailed>>
  /\ UNCHANGED <<events, nParseErr, emitted, exists, visible, focused, placed, onTop,
                 pushTasks, pushed, nLogged>>
  /\ UNCHANGED <<cmdVars, tpc, got, nTests>>

\* Mutant: the store is assigned the event's data as it is, None included.
LoopStageAssignsOption(w) ==
  /\ pc[w] = "stage"
  /\ LET e == cur[w][1] IN
       /\ break_data' = e.data
       /\ lastStaged' = e.data
       /\ IF e.data # None
            THEN Log(<<"event", e.id>>, <<"stage">>)
            ELSE UNCHANGED fx
  /\ pc' = [pc EXCEPT ![w] = "show"]
  /\ UNCHANGED <<is_running, child, childLock, proc, cur, pendingStarts, restarts, nFailed>>
  /\ UNCHANGED <<events, nParseErr, emitted, exists, visible, focused, placed, onTop,
                 pushTasks, pushed, nLogged>>
  /\ UNCHANGED <<cmdVars, tpc, got, nTests>>

\* break_due, lines 490-495: stage the event's data in the handoff store.
LoopStage(w) ==
  /\ pc[w] = "stage"
  /\ LET e == cur[w][1] IN
       IF e.data # None
         THEN /\ break_data' = e.data
              /\ lastStaged' = e.data
              /\ Log(<<"event", e.id>>, <<"stage">>)
         ELSE UNCHANGED <<break_data, lastStaged, fx>>
  /\ pc' = [pc EXCEPT ![w] = "show"]
  /\ UNCHANGED <<is_running, child, childLock, proc, cur, pendingStarts, restarts, nFailed>>
  /\ UNCHANGED <<events, nParseErr, emitted, exists, visible, focused, placed, onTop,
                 pushTasks, pushed, nLogged>>
  /\ UNCHANGED <<cmdVars, tpc, got, nTests>>

\* The delayed push of lines 503-512 (and 149-157, 541-551): it carries the
\* data it was spawned with.
PushTask(src, surface, name, data) ==
  [src |-> src, surface |-> surface, name |-> name, data |-> data]

\* break_due, lines 497-513: show and focus the overlay, spawn the push.
LoopShowOverlay(w) ==
  /\ pc[w] = "show"
  /\ LET e == cur[w][1] IN
       IF "overlay" \in exists
         THEN /\ visible' = visible \cup {"overlay"}
              /\ focused' = "overlay"
              /\ pushTasks' = pushTasks \cup
                   {PushTask(<<"event", e.id>>, "overlay", "show-break", e.data)}
              /\ Log(<<"event", e.id>>, <<"show", "focus", "spawn_push">>)
         ELSE UNCHANGED <<visible, focused, pushTasks, fx>>
  /\ pc' = [pc EXCEPT ![w] = "emit"]
  /\ UNCHANGED <<is_running, child, childLock, proc, cur, pendingStarts, restarts, nFailed>>
  /\ UNCHANGED <<events, nParseErr, emitted, exists, placed, onTop, pushed, nLogged>>
  /\ UNCHANGED <<cmdVars, handoffVars>>

\* Mutant: the notification window is shown before it is positioned.
LoopWarnShowFirst(w, monitor) ==
  /\ pc[w] = "warn"
  /\ LET e == cur[w][1] IN
       IF "notification" \in exists
         THEN /\ placed' = IF monitor THEN placed \cup {"notification"} ELSE placed
              /\ visible' = visible \cup {"notification"}
              /\ onTop' = onTop \cup {"notification"}
              /\ pushTasks' = pushTasks \cup
                   {PushTask(<<"event", e.id>>, "notification", "show-schedule-warning", e.data)}
              /\ Log(<<"event", e.id>>,
                     <<"show">> \o (IF monitor THEN <<"position">> ELSE <<>>)
                       \o <<"on_top", "spawn_push">>)
         ELSE UNCHANGED <<placed, visible, onTop, pushTasks, fx>>
  /\ pc' = [pc EXCEPT ![w] = "emit"]
  /\ UNCHANGED <<is_running, child, childLock, proc, cur, pendingStarts, restarts, nFailed>>
  /\ UNCHANGED <<events, nParseErr, emitted, exists, focused, pushed, nLogged>>
  /\ UNCHANGED <<cmdVars, handoffVars>>

\* Mutant: without a notification window the event is dropped, the loop
\* going on to the next line.
LoopWarnDropsUnshown(w, monitor) ==
  /\ pc[w] = "warn"
  /\ LET e == cur[w][1] IN
       IF "notification" \in exists
         THEN /\ placed' = IF monitor THEN placed \cup {"notification"} ELSE placed
              /\ visible' = visible \cup {"notification"}
              /\ onTop' = onTop \cup {"notification"}
              /\ pushTasks' = pushTasks \cup
                   {PushTask(<<"event", e.id>>, "notification", "show-schedule-warning", e.data)}
              /\ Log(<<"event", e.id>>,
                     (IF monitor THEN <<"position">> ELSE <<>>)
                       \o <<"show", "on_top", "spawn_push">>)
              /\ pc' = [pc EXCEPT ![w] = "emit"]
              /\ UNCHANGED cur
         ELSE /\ pc' = [pc EXCEPT ![w] = "recv"]
              /\ cur' = [cur EXCEPT ![w] = None]
              /\ UNCHANGED <<placed, visible, onTop, pushTasks, fx>>
  /\ UNCHANGED <<is_running, child, childLock, proc, pendingStarts, restarts, nFailed>>
  /\ UNCHANGED <<events, nParseErr, emitted, exists, focused, pushed, nLogged>>
  /\ UNCHANGED <<cmdVars, handoffVars>>

\* schedule_warning, lines 514-553: position (when a monitor is found), show
\* and raise the notification window, spawn the push.
LoopWarn(w, monitor) ==
  /\ pc[w] = "warn"
  /\ LET e == cur[w][1] IN
       IF "notification" \in exists
         THEN /\ placed' = IF monitor THEN placed \cup {"notification"} ELSE placed
              /\ visible' = visible \cup {"notification"}
              /\ onTop' = onTop \cup {"notification"}
              /\ pushTasks' = pushTasks \cup
                   {PushTask(<<"event", e.id>>, "notification", "show-schedule-warning", e.data)}
              /\ Log(<<"event", e.id>>,
                     (IF monitor THEN <<"position">> ELSE <<>>)
                       \o <<"show", "on_top", "spawn_push">>)
         ELSE UNCHANGED <<placed, visible, onTop, pushTasks, fx>>
  /\ pc' = [pc EXCEPT ![w] = "emit"]
  /\ UNCHANGED <<is_running, child, childLock, proc, cur, pendingStarts, restarts, nFailed>>
  /\ UNCHANGED <<events, nParseErr, emitted, exists, focused, pushed, nLogged>>
  /\ UNCHANGED <<cmdVars, handoffVars>>

\* Mutant: only the events with a routing rule of their own are forwarded.
LoopEmitKnownOnly(w) ==
  /\ pc[w] = "emit"
  /\ LET e == cur[w][1] IN
       emitted' = IF e.event_type \in {"break_due", "schedule_warning"}
                    THEN Append(emitted, [name |-> <<"sidecar-", e.event_type>>,
                                          id |-> e.id,
                                          payload |-> [type |-> e.event_type, data |-> e.data]])
                    ELSE emitted
  /\ LET e == cur[w][1] IN
       IF e.event_type \in {"break_due", "schedule_warning"}
         THEN Log(<<"event", e.id>>, <<"emit">>)
         ELSE UNCHANGED fx
  /\ cur' = [cur EXCEPT ![w] = None]
  /\ pc' = [pc EXCEPT ![w] = "recv"]
  /\ UNCHANGED <<is_running, child, childLock, proc, pendingStarts, restarts, nFailed>>
  /\ UNCHANGED <<events, nParseErr, exists, visible, focused, placed, onTop,
                 pushTasks, pushed, nLogged>>
  /\ UNCHANGED <<cmdVars, handoffVars>>

\* Line 555: forward the event to all listeners as "sidecar-<type>".
LoopEmit(w) ==
  /\ pc[w] = "emit"
  /\ LET e == cur[w][1] IN
       emitted' = Append(emitted, [name |-> <<"sidecar-", e.event_type>>,
                                   id |-> e.id,
                                   payload |-> [type |-> e.event_type, data |-> e.data]])
  /\ Log(<<"event", cur[w][1].id>>, <<"emit">>)
  /\ cur' = [cur EXCEPT ![w] = None]
  /\ pc' = [pc EXCEPT ![w] = "recv"]
  /\ UNCHANGED <<is_running, child, childLock, proc, pendingStarts, restarts, nFailed>>
  /\ UNCHANGED <<events, nParseErr, exists, visible, focused, placed, onTop,
                 pushTasks, pushed, nLogged>>
  /\ UNCHANGED <<cmdVars, handoffVars>>

\* Mutant: the push sends what the handoff store holds when it fires.
PushFireFromStore(t) ==
  /\ t \in pushTasks
  /\ pushTasks' = pushTasks \ {t}
  /\ pushed' = IF t.surface \in exists /\ break_data # None
                 THEN Append(pushed, [src |-> t.src, surface |-> t.surface,
                                      name |-> t.name, payload |-> break_data[1]])
                 ELSE pushed
  /\ UNCHANGED <<events, nParseErr, emitted, exists, visible, focused, placed, onTop>>
  /\ UNCHANGED <<fx, nLogged, supVars, cmdVars, handoffVars>>

\* Mutant: a push that finds its window gone takes the staged payload back.
PushFireDrains(t) ==
  /\ t \in pushTasks
  /\ pushTasks' = pushTasks \ {t}
  /\ pushed' = IF t.surface \in exists /\ t.data # None
                 THEN Append(pushed, [src |-> t.src, surface |-> t.surface,
                                      name |-> t.name, payload |-> t.data[1]])
                 ELSE pushed
  /\ break_data' = IF t.surface \in exists THEN break_data ELSE None
  /\ UNCHANGED <<events, nParseErr, emitted, exists, visible, focused, placed, onTop>>
  /\ UNCHANGED <<fx, nLogged, supVars, cmdVars, tpc, got, lastStaged, nTests>>

\* A delayed push wakes up, lines 506-511: it re-resolves the window and
\* emits only if the window is there and the data is Some.
PushFire(t) ==
  /\ t \in pushTasks
  /\ pushTasks' = pushTasks \ {t}
  /\ pushed' = IF t.surface \in exists /\ t.data # None
                 THEN Append(pushed, [src |-> t.src, surface |-> t.surface,
                                      name |-> t.name, payload |-> t.data[1]])
                 ELSE pushed
  /\ UNCHANGED <<events, nParseErr, emitted, exists, visible, focused, placed, onTop>>
  /\ UNCHANGED <<fx, nLogged, supVars, cmdVars, handoffVars>>

\* A window is destroyed; get_webview_window then returns None for it.
WindowDestroyed(s) ==
  /\ s \in exists
  /\ exists' = exists \ {s}
  /\ visible' = visible \ {s}
  /\ focused' = IF focused = s THEN "none" ELSE focused
  /\ UNCHANGED <<events, nParseErr, emitted, placed, onTop, pushTasks, pushed>>
  /\ UNCHANGED <<fx, nLogged, supVars, cmdVars, handoffVars>>

\* ------------------------------------------------------------- commands
\* The frontend tasks that invoke send_to_sidecar, and the tray menu handler
\* (the main thread), which calls write_to_sidecar.
Callers == {"ui1", "ui2"}
Tray == "tray"
Submitters == Callers \cup {Tray}

\* serde_json::to_string(&command) + "\n" goes out through write_all, which
\* may take several write calls: the line of command n is the chunks
\* <<n, 1>> and <<n, 2>>, the second ending with the newline.
LineChunks == 2
Chunk(n, part) == [cmd |-> n, part |-> part]

\* Mutant: the child is used without waiting for the mutex.
AcquireChildNoWait(p) == childLock' = p

\* Taking the child mutex: it blocks until the mutex is free.
AcquireChild(p) ==
  /\ childLock = "free"
  /\ childLock' = p

\* Mutant: with no child stored the call still reports success.
SubmitNoCheck(c, name) ==
  /\ SetupDone
  /\ cpc[c] = "idle"
  /\ nCmds < MaxCmds
  /\ nCmds' = nCmds + 1
  /\ IF child = None
       THEN /\ childLock = "free"
            /\ cres' = IF c \in Callers THEN [cres EXCEPT ![c] = "ok"] ELSE cres
            /\ UNCHANGED <<childLock, cpc, ccmd>>
       ELSE /\ AcquireChild(c)
            /\ cpc' = [cpc EXCEPT ![c] = "writing"]
            /\ ccmd' = [ccmd EXCEPT ![c] = Some([id |-> nCmds + 1, name |-> name, part |-> 1])]
            /\ cres' = IF c \in Callers THEN [cres EXCEPT ![c] = "pending"] ELSE cres
  /\ UNCHANGED <<stdin, written, hostExited, qres>>
  /\ UNCHANGED <<is_running, child, proc, pc, cur, pendingStarts, restarts, nFailed>>
  /\ UNCHANGED <<routeVars, handoffVars>>

\* Lines 41-44 and 48-50 (send_to_sidecar), 323-326 (write_to_sidecar): take
\* the child lock; with no child stored, send_to_sidecar returns
\* Err("Sidecar not running") and write_to_sidecar returns silently.
Submit(c, name) ==
  /\ SetupDone
  /\ cpc[c] = "idle"
  /\ nCmds < MaxCmds
  /\ nCmds' = nCmds + 1
  /\ IF child = None
       THEN /\ childLock = "free"
            /\ cres' = IF c \in Callers THEN [cres EXCEPT ![c] = "not_running"] ELSE cres
            /\ UNCHANGED <<childLock, cpc, ccmd>>
       ELSE /\ AcquireChild(c)
            /\ cpc' = [cpc EXCEPT ![c] = "writing"]
            /\ ccmd' = [ccmd EXCEPT ![c] = Some([id |-> nCmds + 1, name |-> name, part |-> 1])]
            /\ cres' = IF c \in Callers THEN [cres EXCEPT ![c] = "pending"] ELSE cres
  /\ UNCHANGED <<stdin, written, hostExited, qres>>
  /\ UNCHANGED <<is_running, child, proc, pc, cur, pendingStarts, restarts, nFailed>>
  /\ UNCHANGED <<routeVars, handoffVars>>

SendToSidecar(c, name) ==
  /\ c \in Callers
  /\ Submit(c, name)
  /\ UNCHANGED tray

\* write_to_sidecar, lines 322-332, is called by the tray menu handler only.
WriteToSidecar(name) == Submit(Tray, name)

\* What child.write returned to the caller c: send_to_sidecar turns it into
\* its own result, write_to_sidecar drops it (let _ =), line 327.
WriteReturned(c, res) ==
  /\ cres' = IF c \in Callers THEN [cres EXCEPT ![c] = res] ELSE cres
  /\ tray' = IF c = Tray THEN Some([tray[1] EXCEPT !.res = res]) ELSE tray

\* Lines 45-47 and 327: child.write, one chunk at a time with the lock held.
\* A write to a process that has exited fails (its end of the pipe is
\* closed); the error ends the call and drops the guard.
ChildWrite(c) ==
  /\ cpc[c] = "writing"
  /\ LET w == child[1]
         m == ccmd[c][1]
     IN IF proc[w] = "alive"
          THEN /\ stdin' = [stdin EXCEPT ![w] = Append(@, Chunk(m.id, m.part))]
               /\ IF m.part = LineChunks
                    THEN /\ written' = written \cup {m.id}
                         /\ childLock' = "free"
                         /\ cpc' = [cpc EXCEPT ![c] = "idle"]
                         /\ ccmd' = [ccmd EXCEPT ![c] = None]
                         /\ WriteReturned(c, "ok")
                    ELSE /\ ccmd' = [ccmd EXCEPT ![c] = Some([m EXCEPT !.part = @ + 1])]
                         /\ UNCHANGED <<written, childLock, cpc, cres, tray>>
          ELSE /\ childLock' = "free"
               /\ cpc' = [cpc EXCEPT ![c] = "idle"]
               /\ ccmd' = [ccmd EXCEPT ![c] = None]
               /\ WriteReturned(c, "write_failed")
               /\ UNCHANGED <<stdin, written>>
  /\ UNCHANGED <<nCmds, hostExited, qres>>
  /\ UNCHANGED <<is_running, child, proc, pc, cur, pendingStarts, restarts, nFailed>>
  /\ UNCHANGED <<routeVars, handoffVars>>

\* complete_break, snooze_break and skip_break, lines 69-103: each hides the
\* overlay first and then sends its command.
BreakCmds == {"complete_break", "snooze_break", "skip_break"}

\* Lines 73-75, 84-86, 98-100: hide the overlay if it exists.
HideOverlay(c, name) ==
  /\ SetupDone
  /\ c \in Callers
  /\ cpc[c] = "idle"
  /\ nCmds < MaxCmds
  /\ visible' = visible \ {"overlay"}
  /\ cpc' = [cpc EXCEPT ![c] = "hidden"]
  /\ ccmd' = [ccmd EXCEPT ![c] = Some([id |-> 0, name |-> name, part |-> 0])]
  /\ UNCHANGED <<cres, stdin, written, nCmds, tray, hostExited, qres>>
  /\ UNCHANGED <<events, nParseErr, emitted, exists, focused, placed, onTop,
                 pushTasks, pushed, fx, nLogged>>
  /\ UNCHANGED <<supVars, handoffVars>>

\* Mutant: a break command that reaches send_to_sidecar takes the pending
\* break out of the handoff store.
SendAfterHideClears(c) ==
  /\ cpc[c] = "hidden"
  /\ nCmds' = nCmds + 1
  /\ break_data' = None
  /\ lastStaged' = None
  /\ IF child = None
       THEN /\ childLock = "free"
            /\ cres' = [cres EXCEPT ![c] = "not_running"]
            /\ cpc' = [cpc EXCEPT ![c] = "idle"]
            /\ ccmd' = [ccmd EXCEPT ![c] = None]
            /\ UNCHANGED childLock
       ELSE /\ AcquireChild(c)
            /\ cpc' = [cpc EXCEPT ![c] = "writing"]
            /\ ccmd' = [ccmd EXCEPT ![c] =
                        Some([id |-> nCmds + 1, name |-> ccmd[c][1].name, part |-> 1])]
            /\ cres' = [cres EXCEPT ![c] = "pending"]
  /\ UNCHANGED <<stdin, written, tray, hostExited, qres>>
  /\ UNCHANGED <<is_running, child, proc, pc, cur, pendingStarts, restarts, nFailed>>
  /\ UNCHANGED <<routeVars, tpc, got, nTests>>

\* Lines 76-77, 87-91, 101-102: the command goes to send_to_sidecar, which
\* takes the child lock and returns Err("Sidecar not running") with no
\* child stored (lines 41-50).
SendAfterHide(c) ==
  /\ cpc[c] = "hidden"
  /\ nCmds' = nCmds + 1
  /\ IF child = None
       THEN /\ childLock = "free"
            /\ cres' = [cres EXCEPT ![c] = "not_running"]
            /\ cpc' = [cpc EXCEPT ![c] = "idle"]
            /\ ccmd' = [ccmd EXCEPT ![c] = None]
            /\ UNCHANGED childLock
       ELSE /\ AcquireChild(c)
            /\ cpc' = [cpc EXCEPT ![c] = "writing"]
            /\ ccmd' = [ccmd EXCEPT ![c] =
                        Some([id |-> nCmds + 1, name |-> ccmd[c][1].name, part |-> 1])]
            /\ cres' = [cres EXCEPT ![c] = "pending"]
  /\ UNCHANGED <<stdin, written, tray, hostExited, qres>>
  /\ UNCHANGED <<is_running, child, proc, pc, cur, pendingStarts, restarts, nFailed>>
  /\ UNCHANGED <<routeVars, handoffVars>>

\* is_sidecar_running, lines 55-57: the flag is read under its own lock.
IsSidecarRunning ==
  /\ SetupDone
  /\ qres' = Some(is_running)
  /\ UNCHANGED <<cpc, ccmd, cres, stdin, written, nCmds, tray, hostExited>>
  /\ UNCHANGED <<supVars, routeVars, handoffVars>>

\* ------------------------------------------------------------- tray menu
\* setup_tray, lines 363-409: the menu items that write to the sidecar.  The
\* four pause items differ in their minutes only.
PauseMinutes == [pause_30m |-> 30, pause_1h |-> 60, pause_2h |-> 120, pause_movie |-> 480]
PauseItems == {"pause_30m"}
TrayItems == PauseItems \cup {"resume", "quit"}
TrayCmd(item) ==
  IF item \in PauseItems THEN "pause"
  ELSE IF item = "resume" THEN "resume"
  ELSE "shutdown"

\* on_menu_event, lines 363-366, 376-380, 405-406: the handler runs on the
\* main thread, one menu event at a time, and begins with write_to_sidecar.
TrayEmits == {i \in 1..Len(emitted) : emitted[i].id = 0}

TrayMenu(item) ==
  /\ tray = None
  /\ item # "quit" => Cardinality(TrayEmits) < MaxTray
  /\ WriteToSidecar(TrayCmd(item))
  /\ tray' = Some([item |-> item, cmd |-> nCmds + 1,
                   res |-> IF child = None THEN "no_child" ELSE "pending",
                   step |-> "write"])

\* write_to_sidecar has returned to the handler.
TrayWritten == tray # None /\ tray[1].step = "write" /\ cpc[Tray] = "idle"

\* Lines 382-407: after write_to_sidecar the pause and resume items emit
\* "sidecar-paused" / "sidecar-resumed" to the frontend.
TrayEmit ==
  /\ TrayWritten
  /\ tray[1].item # "quit"
  /\ emitted' = Append(emitted,
       IF tray[1].item = "resume"
         THEN [name |-> <<"sidecar-", "resumed">>, id |-> 0, payload |-> JObj(<<>>)]
         ELSE [name |-> <<"sidecar-", "paused">>, id |-> 0,
               payload |-> JObj([minutes |-> JNum(PauseMinutes[tray[1].item])])])
  /\ tray' = None
  /\ UNCHANGED <<events, nParseErr, exists, visible, focused, placed, onTop,
                 pushTasks, pushed, fx, nLogged>>
  /\ UNCHANGED <<cpc, ccmd, cres, stdin, written, nCmds, hostExited, qres>>
  /\ UNCHANGED <<supVars, handoffVars>>

\* "quit", line 367: the main thread starts its 500 ms sleep.
TraySleep ==
  /\ TrayWritten
  /\ tray[1].item = "quit"
  /\ tray' = Some([tray[1] EXCEPT !.step = "sleep"])
  /\ UNCHANGED <<cpc, ccmd, cres, stdin, written, nCmds, hostExited, qres>>
  /\ UNCHANGED <<supVars, routeVars, handoffVars>>

\* Mutant: the host exits as soon as write_to_sidecar has returned.
TrayExitNoGrace ==
  /\ tray # None
  /\ tray[1].item = "quit"
  /\ cpc[Tray] = "idle"
  /\ hostExited' = TRUE
  /\ UNCHANGED <<cpc, ccmd, cres, stdin, written, nCmds, tray, qres>>
  /\ UNCHANGED <<supVars, routeVars, handoffVars>>

\* "quit", lines 367-368: the sleep is over and app.exit(0) ends the host.
TrayExit ==
  /\ tray # None
  /\ tray[1].step = "sleep"
  /\ hostExited' = TRUE
  /\ UNCHANGED <<cpc, ccmd, cres, stdin, written, nCmds, tray, qres>>
  /\ UNCHANGED <<supVars, routeVars, handoffVars>>

\* ------------------------------------------------------------- handoff store
TestBreak == TestBreakData("eye_rest", 20, "#4ade80")

\* trigger_test_break, lines 132-141: build the payload and stage it.
TriggerTestBreak ==
  /\ SetupDone
  /\ tpc = None
  /\ nTests < MaxTests
  /\ nTests' = nTests + 1
  /\ break_data' = Some(TestBreak)
  /\ lastStaged' = Some(TestBreak)
  /\ tpc' = Some([id |-> nTests + 1, data |-> TestBreak])
  /\ Log(<<"test", nTests + 1>>, <<"stage">>)
  /\ UNCHANGED got
  /\ UNCHANGED <<events, nParseErr, emitted, exists, visible, focused, placed, onTop,
                 pushTasks, pushed, nLogged>>
  /\ UNCHANGED <<supVars, cmdVars>>

\* trigger_test_break, lines 143-160: show and focus the overlay, spawn the push.
TriggerShow ==
  /\ tpc # None
  /\ IF "overlay" \in exists
       THEN /\ visible' = visible \cup {"overlay"}
            /\ focused' = "overlay"
            /\ pushTasks' = pushTasks \cup
                 {PushTask(<<"test", tpc[1].id>>, "overlay", "show-break", Some(tpc[1].data))}
            /\ Log(<<"test", tpc[1].id>>, <<"show", "focus", "spawn_push">>)
       ELSE UNCHANGED <<visible, focused, pushTasks, fx>>
  /\ tpc' = None
  /\ UNCHANGED <<break_data, got, lastStaged, nTests>>
  /\ UNCHANGED <<events, nParseErr, emitted, exists, placed, onTop, pushed, nLogged>>
  /\ UNCHANGED <<supVars, cmdVars>>

\* get_pending_break, lines 165-169: a clone of the stored value.
GetPendingBreak ==
  /\ SetupDone
  /\ got' = break_data
  /\ UNCHANGED <<break_data, tpc, lastStaged, nTests>>
  /\ UNCHANGED <<supVars, routeVars, cmdVars>>

\* Mutant: the store is left as it is.
ClearPendingBreakNoop ==
  /\ SetupDone
  /\ UNCHANGED break_data
  /\ lastStaged' = None
  /\ UNCHANGED <<tpc, got, nTests>>
  /\ UNCHANGED <<supVars, routeVars, cmdVars>>

\* clear_pending_break, lines 173-176.
ClearPendingBreak ==
  /\ SetupDone
  /\ break_data' = None
  /\ lastStaged' = None
  /\ UNCHANGED <<tpc, got, nTests>>
  /\ UNCHANGED <<supVars, routeVars, cmdVars>>

\* ------------------------------------------------------------- specification
\* run(), lines 658-664 and 721: both states are managed empty, and setup
\* calls start_sidecar once.
Init ==
  /\ is_running = FALSE
  /\ child = None
  /\ childLock = "free"
  /\ break_data = None
  /\ proc = [w \in Workers |-> "unborn"]
  /\ pc = [w \in Workers |-> "none"]
  /\ cur = [w \in Workers |-> None]
  /\ pendingStarts = 1
  /\ restarts = [w \in Workers |-> 0]
  /\ nFailed = 0
  /\ events = <<>>
  /\ nParseErr = 0
  /\ emitted = <<>>
  /\ exists = Surfaces
  /\ visible = {}
  /\ focused = "none"
  /\ placed = {}
  /\ onTop = {}
  /\ pushTasks = {}
  /\ pushed = <<>>
  /\ fx = [src \in Sources |-> <<>>]
  /\ nLogged = 0
  /\ cpc = [c \in Submitters |-> "idle"]
  /\ ccmd = [c \in Submitters |-> None]
  /\ cres = [c \in Callers |-> "none"]
  /\ stdin = [w \in Workers |-> <<>>]
  /\ written = {}
  /\ nCmds = 0
  /\ tray = None
  /\ hostExited = FALSE
  /\ qres = None
  /\ tpc = None
  /\ got = None
  /\ lastStaged = None
  /\ nTests = 0

StartNext ==
  \/ \E o \in LaunchOutcomes : StartSidecar(o)
  \/ \E w \in Workers : StartStoreChild(w)
  \/ \E w \in Workers : StartSetRunning(w)

CrashNext ==
  \/ \E w \in Workers : WorkerExit(w)
  \/ \E w \in Workers, status \in ExitStatuses : LoopTerminated(w, status)
  \/ \E w \in Workers : LoopTermRestart(w)

SupervisorNext == StartNext \/ CrashNext

DispatchNext ==
  \/ \E w \in Workers, line \in Lines : LoopStdout(w, line)
  \/ \E w \in Workers : LoopStage(w)
  \/ \E w \in Workers : LoopShowOverlay(w)
  \/ \E w \in Workers, monitor \in BOOLEAN : LoopWarn(w, monitor)
  \/ \E w \in Workers : LoopEmit(w)

RouterNext ==
  \/ DispatchNext
  \/ \E t \in pushTasks : PushFire(t)
  \/ \E s \in Surfaces : WindowDestroyed(s)

OutputNext ==
  \/ \E w \in Workers : LoopStderr(w)
  \/ \E w \in Workers : LoopError(w)
  \/ \E w \in Workers : LoopClosed(w)

CallerNext ==
  \/ \E c \in Callers : SendToSidecar(c, "get_status")
  \/ \E c \in Submitters : ChildWrite(c)

QueryNext == IsSidecarRunning

BreakCmdNext ==
  \/ \E c \in Callers, name \in BreakCmds : HideOverlay(c, name)
  \/ \E c \in Callers : SendAfterHide(c)

TrayNext ==
  \/ \E item \in TrayItems \ {"quit"} : TrayMenu(item)
  \/ TrayEmit

CommandNext == CallerNext \/ TrayNext

QuitNext ==
  \/ TrayMenu("quit")
  \/ TraySleep
  \/ TrayExit

HandoffNext ==
  \/ TriggerTestBreak
  \/ TriggerShow
  \/ GetPendingBreak
  \/ ClearPendingBreak

\* Nothing of the program runs once the host process has exited.
Next ==
  /\ ~hostExited
  /\ \/ SupervisorNext \/ RouterNext \/ OutputNext
     \/ CommandNext \/ BreakCmdNext \/ QueryNext \/ QuitNext \/ HandoffNext

Spec == Init /\ [][Next]_vars

\* The parts of the program that share no state with the part left out,
\* whose variables then keep their initial values.
\* The supervisor (start, exit, restart) with the command path, the tray
\* taking part with one of its pause items:
CommandStep ==
  \/ SupervisorNext
  \/ CallerNext
  \/ TrayMenu("pause_30m")
  \/ TrayEmit
CommandSpec == Init /\ [][CommandStep]_vars
\* The supervisor with the frontend's sends only:
CallerSpec == Init /\ [][SupervisorNext \/ CallerNext]_vars
\* The supervisor with the tray's quit item and one frontend task that
\* competes with it for the child:
QuitStep ==
  /\ ~hostExited
  /\ \/ SupervisorNext
     \/ SendToSidecar("ui1", "get_status")
     \/ \E c \in Submitters : ChildWrite(c)
     \/ QuitNext
QuitSpec == Init /\ [][QuitStep]_vars
\* One sidecar that stays up, with the router and the handoff store:
RouterStep ==
  /\ StartNext \/ RouterNext \/ HandoffNext
  /\ Len(events') <= MaxRouted
RouterSpec == Init /\ [][RouterStep]_vars
\* The supervisor with the frontend's sends and its status queries:
StatusSpec == Init /\ [][SupervisorNext \/ CallerNext \/ QueryNext]_vars
\* The supervisor with the router, the writers of the handoff store and one
\* frontend task that answers the breaks; the workers print lines that
\* decode, and the events and test breaks share one budget:
FrameStep ==
  /\ \/ SupervisorNext
     \/ DispatchNext
     \/ \E t \in pushTasks : PushFire(t)
     \/ TriggerTestBreak \/ TriggerShow \/ ClearPendingBreak
     \/ HideOverlay("ui1", "complete_break")
     \/ SendAfterHide("ui1")
     \/ ChildWrite("ui1")
  /\ Len(events') + nTests' <= MaxRouted
  /\ nCmds' <= MaxAnswers
  /\ nParseErr' = nParseErr
FrameSpec == Init /\ [][FrameStep]_vars
\* The supervisor with everything its event loops receive, and no other
\* thread:
LoopSpec == Init /\ [][SupervisorNext \/ DispatchNext \/ OutputNext]_vars

\* The scheduling the runtime guarantees: a task that can run does run (the
\* tokio runtime polls every spawned task; a sleeping task wakes up), and a
\* thread blocked on a mutex gets it once the holder lets go.  Nothing is
\* assumed of the sidecar process or of the callers.
SupervisorFairness ==
  /\ WF_vars(\E o \in LaunchOutcomes : StartSidecar(o))
  /\ \A w \in Workers :
       /\ WF_vars(StartStoreChild(w))
       /\ WF_vars(StartSetRunning(w))
       /\ WF_vars(\E status \in ExitStatuses : LoopTerminated(w, status))
       /\ WF_vars(LoopTermRestart(w))
  /\ \A c \in Submitters : WF_vars(ChildWrite(c))
FairCallerSpec == CallerSpec /\ SupervisorFairness
\* The main thread, too, goes on: its sleep ends and app.exit is called.
\* After app.exit nothing is scheduled any more.
QuitFairness ==
  /\ WF_vars(~hostExited /\ \E o \in LaunchOutcomes : StartSidecar(o))
  /\ \A w \in Workers :
       /\ WF_vars(~hostExited /\ StartStoreChild(w))
       /\ WF_vars(~hostExited /\ StartSetRunning(w))
       /\ WF_vars(~hostExited /\ \E status \in ExitStatuses : LoopTerminated(w, status))
       /\ WF_vars(~hostExited /\ LoopTermRestart(w))
  /\ \A c \in Submitters : WF_vars(~hostExited /\ ChildWrite(c))
  /\ WF_vars(~hostExited /\ TraySleep)
  /\ WF_vars(~hostExited /\ TrayExit)
FairQuitSpec == QuitSpec /\ QuitFairness

\* ------------------------------------------------------------- claims
\* The workers whose Terminated event the supervisor has handled completely,
\* and those a start_sidecar call or an event loop is busy with.
Handled == {w \in Workers : pc[w] = "done"}
Supervised == {w \in Workers : pc[w] \notin {"none", "done"}}

\* C1 (as stated): every Terminated event is eventually followed by a state
\* with RunningFlag = true.
C1_AlwaysRunsAgain ==
  \A w \in Workers : (pc[w] = "term") ~> is_running

\* C1 (amended): when a Terminated event is observed RunningFlag is false,
\* and without any caller action start_sidecar runs again: RunningFlag
\* becomes true again unless that launch fails.
C1_RunsAgainUnlessLaunchFails ==
  /\ [](\A w \in Workers : pc[w] = "term" => ~is_running)
  /\ \A w \in Workers : (pc[w] = "term") ~> (is_running \/ nFailed > 0)

\* C1 witness: a worker has terminated and the flag is up again for its
\* successor.
C1_Witness ==
  \E w \in Workers : pc[w] = "done" /\ is_running /\ child = Some(w + 1)

\* C2: each Terminated event lowers RunningFlag, clears the handle and
\* schedules exactly one start_sidecar call: the calls made or pending are
\* the initial one plus one per handled termination.
C2_OneRestartPerTermination ==
  /\ \A w \in Workers :
       /\ pc[w] = "term" => ~is_running
       /\ restarts[w] = IF pc[w] = "done" THEN 1 ELSE 0
       /\ (pc[w] = "done" /\ \A v \in Workers : v > w => pc[v] \in {"none", "spawned"})
            => (child = None /\ ~is_running)
  /\ pendingStarts + Cardinality(Spawned) + nFailed = 1 + Cardinality(Handled)

\* C2 witness: a termination was handled and its one restart is pending.
C2_Witness ==
  \E w \in Workers : pc[w] = "done" /\ restarts[w] = 1 /\ pendingStarts = 1

\* C3: at most one worker is supervised at any time: at most one process
\* runs, at most one worker is between spawn and the end of its event loop,
\* a start_sidecar call stores its child only into an empty slot, and the
\* stored handle is that worker's.
C3_SingleWorker ==
  /\ Cardinality({w \in Workers : proc[w] = "alive"}) <= 1
  /\ Cardinality(Supervised) <= 1
  /\ pendingStarts > 0 => Supervised = {}
  /\ \A w \in Workers :
       /\ pc[w] = "spawned" => child = None
       /\ child = Some(w) => pc[w] \in {"stored", "recv", "term"}

\* C3 witness: the second worker runs after the first one terminated.
C3_Witness ==
  is_running /\ pc[1] = "done" /\ pc[2] = "recv" /\ proc[2] = "alive"

\* C4 (as stated): a send_to_sidecar issued while RunningFlag = false fails
\* with the not-running error and starts no write.
C4_SubmitOnlyWhileRunning ==
  [][\A c \in Callers :
       (SendToSidecar(c, "get_status") /\ ~is_running)
         => (cres'[c] = "not_running" /\ cpc'[c] = "idle")]_vars

\* C5: with no handle stored, send_to_sidecar returns the not-running error,
\* writes nothing and leaves the flag, the handle and the handoff payload as
\* they are.
C5_NoHandleNoWrite ==
  [][\A c \in Callers :
       (SendToSidecar(c, "get_status") /\ child = None)
         => /\ cres'[c] = "not_running"
            /\ cpc'[c] = "idle"
            /\ UNCHANGED <<stdin, written, is_running, child, childLock, break_data>>]_vars

\* C5 witness: a send was refused after a termination had been handled.
C5_Witness ==
  \E c \in Callers, w \in Workers :
    cres[c] = "not_running" /\ pc[w] = "done" /\ child = None /\ stdin[w] = <<>>

\* The commands of the complete lines in worker w's input.
CompleteCmds(w) ==
  {stdin[w][i].cmd : i \in {j \in 1..Len(stdin[w]) : stdin[w][j].part = LineChunks}}

\* C6: the input of every worker is a sequence of whole command lines, no
\* two commands interleaved: the chunks of a line follow each other, only
\* the last line may be unfinished (its writer still holds the lock, or the
\* process exited under it), no command appears twice or in two inputs, and
\* the complete lines are exactly the commands whose write completed.
C6_WholeLines ==
  /\ \A w \in Workers :
       LET s == stdin[w] IN
         /\ \A i \in 1..Len(s) :
              /\ s[i].part = ((i - 1) % LineChunks) + 1
              /\ s[i].part > 1 => s[i].cmd = s[i - 1].cmd
         /\ \A i, j \in 1..Len(s) : s[i] = s[j] => i = j
         /\ Len(s) % LineChunks # 0 =>
              \/ proc[w] = "exited"
              \/ \E c \in Submitters :
                   /\ cpc[c] = "writing" /\ childLock = c /\ child = Some(w)
                   /\ ccmd[c][1].id = s[Len(s)].cmd
  /\ \A w, v \in Workers : w # v => CompleteCmds(w) \cap CompleteCmds(v) = {}
  /\ written = UNION {CompleteCmds(w) : w \in Workers}
  /\ Cardinality({c \in Submitters : cpc[c] = "writing"}) <= 1

\* C6 witness: one worker has received two whole lines, the second written
\* by a submitter that had to wait for the first.
C6_Witness ==
  \E w \in Workers :
    /\ Len(stdin[w]) = 2 * LineChunks
    /\ Cardinality(CompleteCmds(w)) = 2
    /\ cres["ui1"] = "ok"
    /\ cpc[Tray] = "idle" /\ cres["ui2"] = "none"

\* The pushes delivered for source src, and whether its push still sleeps.
PushesOf(src) == {i \in 1..Len(pushed) : pushed[i].src = src}
Sleeping(src) == \E t \in pushTasks : t.src = src
\* Event id is past the show step of its dispatch.
ShowDone(id) ==
  \A w \in Workers :
    (cur[w] # None /\ cur[w][1].id = id) => pc[w] \notin {"stage", "show"}

\* C7: a break_due event with data D and an existing overlay: the stage step
\* makes the handoff payload D, the show step shows and focuses the overlay,
\* and once its delayed push has run the overlay has received exactly one
\* "show-break" push for the event, whose payload is the event's D (never
\* more than one, and none while the push sleeps).
C7_BreakDue ==
  /\ [](\A id \in 1..Len(events) :
          (events[id].event_type = "break_due" /\ events[id].data # None) =>
            LET src == <<"event", id>> IN
              /\ Cardinality(PushesOf(src)) <= 1
              /\ \A i \in PushesOf(src) :
                   /\ pushed[i].surface = "overlay"
                   /\ pushed[i].name = "show-break"
                   /\ pushed[i].payload = events[id].data[1]
              /\ Sleeping(src) => PushesOf(src) = {}
              /\ (ShowDone(id) /\ "overlay" \in exists /\ ~Sleeping(src))
                   => Cardinality(PushesOf(src)) = 1)
  /\ [][\A w \in Workers :
          /\ (pc[w] = "stage" /\ pc'[w] = "show" /\ cur[w][1].data # None)
               => break_data' = cur[w][1].data
          /\ (pc[w] = "show" /\ pc'[w] = "emit" /\ "overlay" \in exists)
               => ("overlay" \in visible' /\ focused' = "overlay")]_vars

\* C7 witness: the overlay got the event's data although the handoff store
\* no longer held it when the push fired.
C7_Witness ==
  \E i \in 1..Len(pushed) :
    /\ pushed[i].src = <<"event", 1>>
    /\ pushed[i].payload = StretchData
    /\ break_data # Some(StretchData)
    /\ "overlay" \in visible /\ focused = "overlay"

\* C8: the handoff store holds exactly the payload of the most recent
\* staging since the last clear, and get_pending_break returns it and leaves
\* the store alone.
C8_LastWriteWins ==
  /\ [](break_data = lastStaged)
  /\ [][GetPendingBreak => (got' = lastStaged /\ break_data' = break_data)]_vars

\* C8 witness: the test break was staged over the event's payload (the
\* event's push is already spawned) and read back.
C8_Witness ==
  /\ Sleeping(<<"event", 1>>)
  /\ events[1].data = Some(StretchData)
  /\ got = Some(TestBreak)
  /\ break_data = Some(TestBreak)

\* C9: clear_pending_break empties the store whatever was staged and changes
\* nothing else (on an empty store it changes nothing at all), and a read
\* after it returns empty.
C9_ClearIdempotent ==
  /\ [][ClearPendingBreak =>
          /\ break_data' = None
          /\ UNCHANGED <<supVars, routeVars, cmdVars, tpc, got, nTests>>
          /\ break_data = None => UNCHANGED vars]_vars
  /\ [][(GetPendingBreak /\ lastStaged = None) => got' = None]_vars

\* C9 witness: the staged test break has been cleared: the store is empty
\* while the push spawned for it still sleeps.
C9_Witness ==
  nTests = 1 /\ tpc = None /\ break_data = None /\ got = None /\ Sleeping(<<"test", 1>>)

\* C10: a stdout line that does not decode is dropped: nothing is forwarded,
\* the flag, the handle and the handoff payload keep their values, and the
\* event loop goes on receiving.
C10_BadLineDropped ==
  [][\A w \in Workers, line \in Lines :
       (LoopStdout(w, line) /\ ~Decode(line).ok)
         => /\ UNCHANGED <<is_running, child, break_data, events, emitted, cur>>
            /\ UNCHANGED <<exists, visible, focused, placed, onTop, pushTasks, pushed>>
            /\ pc'[w] = "recv"]_vars

\* C10 witness: after a dropped line the loop has decoded a later line and is
\* about to forward it.
C10_Witness ==
  nParseErr > 0 /\ emitted = <<>> /\ \E w \in Workers : pc[w] = "emit" /\ cur[w] # None

\* Event id is no longer being dispatched by any loop.
Dispatched(id) ==
  \A w \in Workers : cur[w] = None \/ cur[w][1].id # id
\* The broadcasts made for event id.
EmitsOf(id) == {i \in 1..Len(emitted) : emitted[i].id = id}

\* C11: an event whose type has no routing rule of its own is still
\* forwarded: its dispatch goes straight to the broadcast, which is made
\* exactly once, under the name "sidecar-" + type and carrying the decoded
\* event; neither step changes the handoff store or shows, focuses, places or
\* raises a surface, and no push is spawned for it.
C11_UnknownForwarded ==
  /\ [](\A id \in 1..Len(events) : events[id].event_type \notin Special =>
          /\ Cardinality(EmitsOf(id)) <= 1
          /\ \A i \in EmitsOf(id) :
               /\ emitted[i].name = <<"sidecar-", events[id].event_type>>
               /\ emitted[i].payload = [type |-> events[id].event_type,
                                        data |-> events[id].data]
          /\ Dispatched(id) => Cardinality(EmitsOf(id)) = 1
          /\ ~Sleeping(<<"event", id>>)
          /\ PushesOf(<<"event", id>>) = {})
  /\ [][\A w \in Workers :
          /\ (pc[w] = "recv" /\ cur'[w] # None /\ cur'[w][1].event_type \notin Special)
               => /\ pc'[w] = "emit"
                  /\ UNCHANGED <<break_data, emitted, visible, focused, placed, onTop,
                                 pushTasks, pushed>>
          /\ (pc[w] = "emit" /\ pc'[w] # "emit" /\ cur[w][1].event_type \notin Special)
               => /\ pc'[w] = "recv"
                  /\ Len(emitted') = Len(emitted) + 1
                  /\ emitted'[Len(emitted')].id = cur[w][1].id
                  /\ UNCHANGED <<break_data, visible, focused, placed, onTop,
                                 pushTasks, pushed>>]_vars

\* C11 witness: a status_update event has been forwarded while the store is
\* empty and no surface is shown.
C11_Witness ==
  /\ Len(emitted) = 1
  /\ emitted[1].name = <<"sidecar-", "status_update">>
  /\ emitted[1].payload = [type |-> "status_update", data |-> None]
  /\ break_data = None /\ visible = {} /\ pushTasks = {} /\ pushed = <<>>

\* C12: a failed launch, on the initial start or on a restart, is not
\* retried: the failing call changes neither the flag nor the handle, starts
\* no event loop and schedules nothing, and from then on the supervisor is
\* stopped for good: flag false, no handle, no process, no loop, no
\* start_sidecar call pending, and no second launch failure.
C12_FailedLaunchNotRetried ==
  /\ [](nFailed > 0 =>
          /\ nFailed = 1
          /\ ~is_running
          /\ child = None
          /\ pendingStarts = 0
          /\ \A w \in Workers : pc[w] \in {"none", "done"} /\ proc[w] # "alive")
  /\ [][\A o \in LaunchOutcomes \ {"ok"} :
          StartSidecar(o) =>
            /\ UNCHANGED <<is_running, child, pc, proc, restarts>>
            /\ pendingStarts' = pendingStarts - 1]_vars

\* C12 witness: the restart that followed a termination failed to launch,
\* and a send has been refused since.
C12_Witness ==
  /\ nFailed = 1 /\ pc[1] = "done" /\ proc[2] = "unborn"
  /\ \E c \in Callers : cres[c] = "not_running"

\* The issuer of a send_to_sidecar gets an error whenever its command was not
\* delivered, and success only for a command that was written in full.
CallersReported ==
  \A c \in Callers :
    /\ (SendToSidecar(c, "get_status") /\ child = None) => cres'[c] = "not_running"
    /\ (ChildWrite(c) /\ proc[child[1]] # "alive") => cres'[c] = "write_failed"
    /\ (cres'[c] = "ok" /\ cres[c] # "ok") => ccmd[c][1].id \in written'

\* C13 (as stated): every failed submission is reported to its issuer and
\* produces no success signal, on the send_to_sidecar path and on the tray
\* menu's path alike: the tray emits "sidecar-paused" / "sidecar-resumed"
\* only for a command that was written to the worker.
C13_FailuresReported ==
  [][/\ CallersReported
     /\ TrayEmit => (tray[1].res = "ok" /\ tray[1].cmd \in written)]_vars

\* The quit handler is in its grace period (or past it).
InGrace == tray # None /\ tray[1].step = "sleep"
\* The chunks of command n that worker w has received.
ChunksOf(w, n) == {i \in 1..Len(stdin[w]) : stdin[w][i].cmd = n}

\* C14: on quit the order is notify, wait, exit.  When the grace period
\* starts write_to_sidecar has returned: the shutdown line is in the worker's
\* input in full if the write succeeded, no part of it if no handle was
\* stored, and the write failed only on a worker that had exited; nothing
\* is written for it afterwards.  The host exits only from the grace
\* period, and it does exit after every quit, whatever the write did.
C14_NotifyWaitExit ==
  /\ [][(InGrace' /\ ~InGrace) =>
          /\ tray[1].item = "quit"
          /\ cpc[Tray] = "idle" /\ childLock # Tray
          /\ tray[1].res \in {"ok", "no_child", "write_failed"}
          /\ tray[1].res = "ok" =>
               \E w \in Workers : Cardinality(ChunksOf(w, tray[1].cmd)) = LineChunks
          /\ tray[1].res = "no_child" =>
               \A w \in Workers : ChunksOf(w, tray[1].cmd) = {}
          /\ tray[1].res = "write_failed" => Exited # {}]_vars
  /\ [][InGrace =>
          /\ cpc'[Tray] = "idle"
          /\ \A w \in Workers : ChunksOf(w, tray[1].cmd)' = ChunksOf(w, tray[1].cmd)]_vars
  /\ [][(hostExited' /\ ~hostExited) => InGrace]_vars
  /\ (tray # None /\ tray[1].item = "quit") ~> hostExited

\* C14 witness: the host has exited after a shutdown line that the worker
\* received in full.
C14_Witness ==
  /\ hostExited
  /\ tray[1].res = "ok"
  /\ tray[1].cmd \in written
  /\ \E w \in Workers : proc[w] = "alive" /\ Cardinality(ChunksOf(w, tray[1].cmd)) = LineChunks

\* The breaks that carry a payload: break_due events with data, test breaks.
PayloadBreaks ==
  {<<"event", id>> : id \in {i \in 1..Len(events) :
       events[i].event_type = "break_due" /\ events[i].data # None}}
    \cup {<<"test", n>> : n \in 1..nTests}
\* A step that shows the overlay for a break that carries a payload.
ShowsBreak ==
  /\ "overlay" \in exists
  /\ \/ \E w \in Workers : pc[w] = "show" /\ pc'[w] = "emit" /\ cur[w][1].data # None
     \/ tpc # None /\ tpc' = None

\* C15 (as stated): at the moment the overlay is shown for a break, on the
\* break_due path and on the trigger_test_break path, the handoff store
\* holds a payload.
C15_PayloadPresentAtShow ==
  [][ShowsBreak => break_data # None]_vars

\* C15 (amended): staging precedes show on both paths: the effects applied
\* for a break that carries a payload begin with the staging, the show comes
\* after it; at the show the store holds a payload unless a clear has run
\* since the last staging; a staged store is emptied by clear_pending_break
\* only, and get_pending_break returns what the store holds.  So a read
\* after the show returns a payload unless a clear has run since the staging.
C15_StagedBeforeShow ==
  /\ [](\A src \in PayloadBreaks :
          fx[src] # <<>> => (fx[src][1] = "stage" /\ src \in Staged))
  /\ [][(ShowsBreak /\ lastStaged # None) => break_data # None]_vars
  /\ [][(break_data # None /\ break_data' = None) => ClearPendingBreak]_vars
  /\ [][GetPendingBreak => got' = break_data]_vars

\* C15 witness: the overlay was shown for a break_due event after its
\* payload was staged, and a read made during the dispatch returned it.
C15_Witness ==
  /\ fx[<<"event", 1>>] = <<"stage", "show", "focus", "spawn_push">>
  /\ \E w \in Workers : pc[w] = "emit"
  /\ got = Some(StretchData) /\ break_data = got

\* The events with a routing rule of their own.
SpecialEvents ==
  {<<"event", id>> : id \in {i \in 1..Len(events) : events[i].event_type \in Special}}
\* The effects s came in the order of rank R, none of them twice.
InOrder(R(_), s) ==
  \A i, j \in 1..Len(s) : i < j => (R(s[i]) <= R(s[j]) /\ s[i] # s[j])
\* Stage, then show (with focus / always-on-top), then position, then push.
ShowThenPosition(e) ==
  CASE e = "stage" -> 1
    [] e \in {"show", "focus", "on_top"} -> 2
    [] e = "position" -> 3
    [] e = "spawn_push" -> 4
    [] OTHER -> 5
\* Stage, then position, then show (with focus / always-on-top), then push.
PositionThenShow(e) ==
  CASE e = "stage" -> 1
    [] e = "position" -> 2
    [] e \in {"show", "focus", "on_top"} -> 3
    [] e = "spawn_push" -> 4
    [] OTHER -> 5

\* C16 (as stated): for every event with a routing rule of its own the
\* effects are applied in the order stage, show, position, schedule the
\* push; a schedule_warning's notification is shown before it is positioned.
C16_StageShowPositionPush ==
  \A src \in SpecialEvents : InOrder(ShowThenPosition, fx[src])

\* C16 (amended): the effects are applied in the order stage, position,
\* show, schedule the push, each at most once, and the forward comes after
\* them: a schedule_warning's notification is positioned before it is
\* shown; the push is scheduled last of the rule's effects.
C16_StagePositionShowPush ==
  \A src \in SpecialEvents : InOrder(PositionThenShow, fx[src])

\* C16 witness: a schedule_warning event has had its full rule applied.
C16_Witness ==
  /\ events # <<>> /\ events[1].event_type = "schedule_warning"
  /\ fx[<<"event", 1>>] = <<"position", "show", "on_top", "spawn_push", "emit">>

\* The start_sidecar calls made so far.
Attempts == Cardinality(Spawned) + nFailed

\* C17: the restart policy is unconditional and uncapped: whatever the exit
\* status, a Terminated event lowers the flag and goes on to schedule a
\* restart; every handled termination, the first as the last, has scheduled
\* exactly one; the supervisor never stands with a handled termination and
\* no further start_sidecar call made or pending; and after the w-th
\* worker's termination a (w+1)-th call is made.
C17_RestartUncapped ==
  /\ [][\A w \in Workers, status \in ExitStatuses :
          LoopTerminated(w, status) => (pc'[w] = "term" /\ ~is_running')]_vars
  /\ [](\A w \in Workers : pc[w] = "done" =>
          /\ restarts[w] = 1
          /\ Attempts + pendingStarts > w)
  /\ \A w \in Workers : (pc[w] = "term") ~> (Attempts > w)

\* C17 witness: after two crashes in a row the third worker runs.
C17_Witness ==
  /\ pc[1] = "done" /\ pc[2] = "done" /\ restarts[2] = 1
  /\ proc[3] = "alive" /\ is_running /\ Attempts = MaxCrashes + 1

\* The push task for src has been spawned.
PushSpawned(src) == \E i \in 1..Len(fx[src]) : fx[src][i] = "spawn_push"

\* C18: a delayed push is fire-and-forget and at most once.  The dispatch
\* does not wait for it: the loop can always go on to forward the event.
\* No source gets more than one push, none while its task sleeps, and a
\* task is spawned at most once per source.  A task that wakes up ends, and
\* if its window is gone it delivers nothing; a dispatch that finds the
\* window gone spawns no task.  No push touches the handoff store, which
\* changes by a staging or a clear only, so the staged payload stays readable.
C18_PushFireAndForget ==
  /\ [](\A w \in Workers : pc[w] = "emit" => ENABLED LoopEmit(w))
  /\ [](\A src \in Sources :
          /\ Cardinality(PushesOf(src)) <= 1
          /\ Sleeping(src) => (PushesOf(src) = {} /\ PushSpawned(src))
          /\ PushesOf(src) # {} => PushSpawned(src))
  /\ [][\A src \in Sources :
          (Sleeping(src)' /\ ~Sleeping(src)) => ~PushSpawned(src)]_vars
  /\ [][\A t \in pushTasks :
          PushFire(t) =>
            /\ pushTasks' = pushTasks \ {t}
            /\ t.surface \notin exists => pushed' = pushed
            /\ UNCHANGED <<break_data, fx, visible, focused>>]_vars
  /\ [][\A w \in Workers :
          \/ pc[w] = "show" /\ pc'[w] = "emit" /\ "overlay" \notin exists
          \/ pc[w] = "warn" /\ pc'[w] = "emit" /\ "notification" \notin exists
          => UNCHANGED <<pushTasks, pushed, break_data, fx>>]_vars
  /\ [][break_data' # break_data => (ClearPendingBreak \/ Staged' # Staged)]_vars

\* C18 witness: the push spawned for a break_due event woke up after the
\* overlay was destroyed: nothing was delivered, no task is left, and the
\* staged payload has been read back since.
C18_Witness ==
  /\ PushSpawned(<<"event", 1>>)
  /\ ~Sleeping(<<"event", 1>>)
  /\ PushesOf(<<"event", 1>>) = {}
  /\ "overlay" \notin exists
  /\ break_data = Some(StretchData) /\ got = break_data

\* The effects of event id end with its forward.
Forwarded(id) ==
  LET s == fx[<<"event", id>>] IN s # <<>> /\ s[Len(s)] = "emit"

\* C19: the output of the workers is processed one event at a time, in
\* arrival order: at most one event is being dispatched and it is the one
\* received last; an effect is applied only for that event, and only when
\* every event received before it has been forwarded; the forwards come in
\* the order of arrival, one per event; and no effect is applied twice for
\* an event.
C19_OneAtATimeInOrder ==
  /\ [](/\ Cardinality({w \in Workers : cur[w] # None}) <= 1
        /\ \A w \in Workers : cur[w] # None => cur[w][1].id = Len(events)
        /\ \A i \in 1..Len(emitted) : emitted[i].id = i
        /\ Len(emitted) \in {Len(events) - 1, Len(events)}
        /\ \A id \in 1..Len(events) :
             LET s == fx[<<"event", id>>] IN
               /\ \A i, j \in 1..Len(s) : i < j => (s[i] # s[j] /\ s[i] # "emit")
               /\ Forwarded(id) <=> id <= Len(emitted))
  /\ [][\A id \in 1..MaxRecv :
          fx'[<<"event", id>>] # fx[<<"event", id>>] =>
            /\ id = Len(events)
            /\ \A n \in 1..(id - 1) : Forwarded(n)
            /\ \E w \in Workers : cur[w] # None /\ cur[w][1].id = id]_vars

\* C19 witness: one worker printed a break_due and then a status_update:
\* the second was forwarded after the first had been staged, shown and
\* forwarded.
C19_Witness ==
  /\ Len(emitted) = 2 /\ pc[1] = "recv" /\ proc[1] = "alive"
  /\ emitted[1].name = <<"sidecar-", "break_due">>
  /\ emitted[2].name = <<"sidecar-", "status_update">>
  /\ fx[<<"event", 1>>] = <<"stage", "show", "focus", "spawn_push", "emit">>
  /\ fx[<<"event", 2>>] = <<"emit">>

\* The loop of worker w takes a step of its stdout dispatch.
Dispatches(w) ==
  \/ \E line \in Lines : LoopStdout(w, line)
  \/ pc[w] \in {"stage", "show", "warn", "emit"} /\ pc'[w] # pc[w]

\* C20: only a Terminated event triggers recovery: stdout lines and their
\* dispatch, stderr lines, process errors and the end of the stream without
\* Terminated leave the flag and the handle as they are and schedule no
\* start_sidecar call; the flag is lowered, the handle cleared and a call
\* scheduled by the Terminated arm only.
C20_OnlyTerminatedRecovers ==
  /\ [][\A w \in Workers :
          (Dispatches(w) \/ LoopStderr(w) \/ LoopError(w) \/ LoopClosed(w))
            => UNCHANGED <<is_running, child, pendingStarts, restarts>>]_vars
  /\ [][(is_running /\ ~is_running') =>
          \E w \in Workers, status \in ExitStatuses : LoopTerminated(w, status)]_vars
  /\ [][((child # None /\ child' = None) \/ pendingStarts' > pendingStarts
            \/ restarts' # restarts)
          => \E w \in Workers : LoopTermRestart(w)]_vars

\* C20 witness: the stream of the first worker ended without a Terminated
\* event, after a stdout line, a line that did not decode and a logged
\* line: the flag is still up, the handle still stored, nothing scheduled.
C20_Witness ==
  /\ pc[1] = "closed"
  /\ Len(emitted) > 0 /\ nParseErr > 0 /\ nLogged > 0
  /\ is_running /\ child = Some(1) /\ pendingStarts = 0 /\ restarts[1] = 0

\* C21: whenever RunningFlag is true a worker handle is stored, and it is
\* the handle of a worker whose event loop runs: the flag is raised only
\* with the handle in place and by a step that leaves the handle alone, the
\* handle is cleared only with the flag down, and a status query that
\* returns true is answered while a handle is stored.
C21_RunningImpliesHandle ==
  /\ [](is_running =>
          /\ child # None
          /\ \E w \in Workers : child = Some(w) /\ pc[w] \notin {"none", "spawned", "done"})
  /\ [][(~is_running /\ is_running') => (child # None /\ child' = child)]_vars
  /\ [][(child # None /\ child' = None) => (~is_running /\ ~is_running')]_vars
  /\ [][IsSidecarRunning =>
          /\ qres' = Some(is_running)
          /\ qres' = Some(TRUE) => child # None]_vars

\* C21 witness: a status query returned true for the second worker, after
\* one made while the first worker's termination was being handled (flag
\* down, handle still stored) had returned false.
C21_Witness ==
  /\ qres = Some(TRUE) /\ is_running /\ child = Some(2)
  /\ pc[1] = "done" /\ pc[2] = "recv"

\* The break_due events that carry no data.
DatalessBreaks ==
  {id \in 1..Len(events) : events[id].event_type = "break_due" /\ events[id].data = None}
\* The loop of worker w takes a step of the dispatch of such an event.
DatalessStep(w) ==
  /\ cur[w] # None
  /\ cur[w][1].event_type = "break_due" /\ cur[w][1].data = None
  /\ pc'[w] # pc[w]

\* C22: a break_due event without data stages nothing: no step of its
\* dispatch changes the handoff store, so a payload staged before stays
\* readable; the overlay is still shown and focused when it exists; the
\* overlay never gets a "show-break" push for the event, whether its task
\* sleeps or has run; and the event is forwarded once, as
\* "sidecar-break_due", with no data.
C22_BreakDueWithoutData ==
  /\ [](\A id \in DatalessBreaks :
          /\ <<"event", id>> \notin Staged
          /\ PushesOf(<<"event", id>>) = {}
          /\ Cardinality(EmitsOf(id)) <= 1
          /\ \A i \in EmitsOf(id) :
               /\ emitted[i].name = <<"sidecar-", "break_due">>
               /\ emitted[i].payload = [type |-> "break_due", data |-> None]
          /\ Dispatched(id) => Cardinality(EmitsOf(id)) = 1)
  /\ [][\A w \in Workers : DatalessStep(w) =>
          /\ UNCHANGED <<break_data, lastStaged, pushed>>
          /\ pc[w] = "stage" => pc'[w] = "show"
          /\ (pc[w] = "show" /\ "overlay" \in exists) =>
               ("overlay" \in visible' /\ focused' = "overlay")
          /\ pc[w] = "emit" =>
               /\ Len(emitted') = Len(emitted) + 1
               /\ emitted'[Len(emitted')].id = cur[w][1].id]_vars
  /\ [][\A t \in pushTasks : (PushFire(t) /\ t.data = None) => pushed' = pushed]_vars

\* C22 witness: a break_due event without data was dispatched after a test
\* break had been staged: the overlay is shown and focused for it, its task
\* has run and pushed nothing, the event was forwarded, and the test break's
\* payload has been read back since.
C22_Witness ==
  /\ DatalessBreaks = {1} /\ Dispatched(1)
  /\ fx[<<"event", 1>>] = <<"show", "focus", "spawn_push", "emit">>
  /\ ~Sleeping(<<"event", 1>>) /\ PushesOf(<<"event", 1>>) = {}
  /\ focused = "overlay" /\ "overlay" \in visible
  /\ emitted[1].name = <<"sidecar-", "break_due">>
  /\ break_data = Some(TestBreak) /\ got = break_data

\* The ids of the events with a routing rule of their own.
SpecialIds == {id \in 1..Len(events) : events[id].event_type \in Special}
\* The loop of worker w ends the rule of such an event.
RuleEnds(w) ==
  /\ pc[w] \in {"show", "warn"}
  /\ pc'[w] # pc[w]

\* C23: the events with a routing rule of their own are forwarded too.  A
\* break_due or schedule_warning event is broadcast at most once, under
\* "sidecar-" + its type and carrying the decoded event, and exactly once
\* when its dispatch is over; the broadcast is the last effect applied for
\* the event, coming after the staging, the show and the spawning of the push;
\* and the rule's last step goes on to the broadcast whether or not the
\* surface exists, a missing surface only leaving the surface effects out.
C23_SpecialForwarded ==
  /\ [](\A id \in SpecialIds :
          LET s == fx[<<"event", id>>] IN
            /\ Cardinality(EmitsOf(id)) <= 1
            /\ \A i \in EmitsOf(id) :
                 /\ emitted[i].name = <<"sidecar-", events[id].event_type>>
                 /\ emitted[i].payload = [type |-> events[id].event_type,
                                          data |-> events[id].data]
            /\ Dispatched(id) <=> Cardinality(EmitsOf(id)) = 1
            /\ \A i \in 1..Len(s) : s[i] = "emit" => i = Len(s)
            /\ Forwarded(id) <=> EmitsOf(id) # {})
  /\ [][\A w \in Workers : RuleEnds(w) =>
          /\ pc'[w] = "emit" /\ cur'[w] = cur[w]
          /\ emitted' = emitted]_vars
  /\ [](\A w \in Workers : pc[w] = "emit" => (cur[w] # None /\ ENABLED LoopEmit(w)))
  /\ [][\A w \in Workers :
          (pc[w] = "emit" /\ pc'[w] # "emit") =>
            /\ Len(emitted') = Len(emitted) + 1
            /\ emitted'[Len(emitted')].id = cur[w][1].id]_vars

\* C23 witness: a schedule_warning event was forwarded although the
\* notification window had been destroyed before its dispatch: the
\* broadcast is the only effect applied for it.
C23_Witness ==
  /\ SpecialIds = {1} /\ events[1].event_type = "schedule_warning"
  /\ "notification" \notin exists
  /\ fx[<<"event", 1>>] = <<"emit">>
  /\ Len(emitted) = 1
  /\ emitted[1].name = <<"sidecar-", "schedule_warning">>
  /\ emitted[1].payload = [type |-> "schedule_warning", data |-> Some(WarnData)]

\* A step of one of the three writers of the handoff store: the staging of
\* a break_due event that carries data, trigger_test_break, clear_pending_break.
WritesHandoff ==
  \/ \E w \in Workers :
       /\ LoopStage(w)
       /\ cur[w][1].event_type = "break_due" /\ cur[w][1].data # None
  \/ TriggerTestBreak
  \/ ClearPendingBreak
\* A step of a start_sidecar call, of worker w's process or of its event
\* loop, other than such a staging.
LoopFrameStep(w) ==
  \/ proc'[w] # proc[w]
  \/ pc'[w] # pc[w] /\ ~(pc[w] = "stage" /\ cur[w][1].data # None)
\* A step of a command (the hide, the send, a write), of a delayed push
\* that wakes up, of a failing launch, or the show of a test break.
OtherFrameStep ==
  \/ cpc' # cpc \/ ccmd' # ccmd
  \/ \E t \in pushTasks : t \notin pushTasks'
  \/ nFailed' # nFailed
  \/ tpc # None /\ tpc' = None

\* What a step may do to the handoff payload, and what the hide does.
HandoffFrameStep ==
  /\ break_data' # break_data => WritesHandoff
  /\ \A w \in Workers : LoopFrameStep(w) => break_data' = break_data
  /\ OtherFrameStep => break_data' = break_data
  /\ \A c \in Callers : (cpc[c] = "idle" /\ cpc'[c] = "hidden") => "overlay" \notin visible'

\* C24: the handoff payload changes only in a step of one of its three
\* writers; every other step leaves it as it is: the dispatch of a
\* schedule_warning, of any other event and of a break_due without data, the
\* show and the forward of every event, the break commands (which hide the
\* overlay and write to the worker), the writes, the delayed pushes, the
\* exit of a worker, its Terminated event and the restart.
C24_HandoffFrame == [][HandoffFrameStep]_vars

\* C24 witness: the payload of a break_due event is still in the store
\* after its push was delivered, the overlay was hidden by complete_break,
\* the command was written, the worker terminated and its successor started.
C24_Witness ==
  /\ break_data = Some(StretchData)
  /\ PushesOf(<<"event", 1>>) # {}
  /\ "overlay" \notin visible /\ written # {} /\ cres["ui1"] = "ok"
  /\ pc[1] = "done" /\ is_running /\ child = Some(2)

====
